---- MODULE Spec2Model ----
(***************************************************************************)
(* Model of the financial-advisor agent server (src/agent/agent.py):       *)
(* the SessionManager registry of per-thread ADKAgent instances, the       *)
(* POST / handler and the event_generator that bridges agent.run() to the  *)
(* streamed response.                                                      *)
(*                                                                         *)
(* Scheduling: the server is one asyncio event loop (uvicorn.run, one      *)
(* process).  handle_request contains no await, so it runs atomically;     *)
(* event_generator suspends only while awaiting the next source event and  *)
(* at each yield, so one generator step (pull an event, encode it, yield)  *)
(* is atomic with respect to the other requests.                           *)
(***************************************************************************)
EXTENDS Integers, Sequences, FiniteSets, TLC

VARIABLES
    sessions,   \* session_manager.sessions: thread id -> agent instance
    created,    \* create_agent calls so far, in order (the "Creating new agent session" log)
    idle,       \* seconds each registered thread id has been without a request or stream
    pc,         \* per request: position of its handler / event_generator
    thread,     \* per request: thread_id read from the headers
    agent,      \* per request: the instance get_agent returned
    consumed,   \* per request: events pulled from agent.run(input_data)
    encLog,     \* per request: encoder.encode calls, each with its argument and outcome
    srcRaised,  \* per request: text of the exception agent.run raised, "" if none
    out,        \* per request: chunks yielded to the StreamingResponse
    reqHeaders, \* per request: the headers it came with
    health,     \* per request: the body GET /health returned to it
    store,      \* per registered thread id: the state of its agent's session (key -> value)
    stageLog,   \* per request: the sub-agent runs of its agent.run, in order
    sfValue,    \* the argument of the safe_float call at hand
    sfResult,   \* what that call did: pending, returned a value, or raised
    call,       \* the market-data tool call at hand: its arguments and what the provider holds
    ret         \* what that call did: pending, returned a record, or raised

httpVars == <<reqHeaders, health>>
pipeVars == <<store, stageLog>>
toolVars == <<sfValue, sfResult, call, ret>>

vars == <<sessions, created, idle, pc, thread, agent, consumed, encLog, srcRaised, out,
          reqHeaders, health, store, stageLog, sfValue, sfResult, call, ret>>

----------------------------------------------------------------------------
(* Bounds *)

MaxReq == 2          \* requests the model lets arrive, numbered in arrival order
MaxEvents == 3       \* source events pulled, over all streams together
TickSeconds == 3601  \* seconds one Tick step lets pass: it takes a session past the timeout

Requests == 1..MaxReq

(* Program constants *)

SESSION_TIMEOUT_SECONDS == 3600

DefaultThread == "default_thread"

HeaderValues == {"a", "b"}

\* Headers of a request: a partial map from header name to value.
RequestHeaders ==
    {[n \in {} |-> "a"]} \cup [{"x-thread-id"} -> HeaderValues]

\* A bug that reads the header the documentation names.
SessionIdHeader == "x-session-id"

\* The header handle_request reads the thread id from.
ThreadIdHeader == "x-thread-id"

HeaderNames == {"x-thread-id", "x-session-id"}

\* Headers over both names: a request may carry either, both or none.
AnyHeaders == UNION {[N -> HeaderValues] : N \in SUBSET HeaderNames}

NoHeaders == [n \in {} |-> "a"]

\* request.headers.get(name, default)
HeaderGet(h, name, default) ==
    IF name \in DOMAIN h THEN h[name] ELSE default

ThreadIds == HeaderValues \cup {DefaultThread}

FailureTexts == {"e1", "e2"}

----------------------------------------------------------------------------
(* Events and chunks *)

NoText == <<>>

\* An event the pipeline runtime yields.  The bridge treats events as opaque;
\* the kinds are those of the protocol, run-error among them.
ContentDelta == [type |-> "content_delta", code |-> "", message |-> NoText]

SourceEvents ==
    { [type |-> t, code |-> "", message |-> NoText] :
        t \in {"content_delta", "tool_invocation", "run_finished"} }
    \cup { [type |-> "run_error", code |-> "PIPELINE_ERROR", message |-> <<"halt">>] }

NoEvent == [type |-> "none", code |-> "", message |-> NoText]

\* RunErrorEvent(type=RUN_ERROR, message=f"Event encoding failed: {err}", code="ENCODING_ERROR")
EncodingErrorEvent(err) ==
    [type |-> "run_error", code |-> "ENCODING_ERROR",
     message |-> <<"Event encoding failed: ", err>>]

\* RunErrorEvent(type=RUN_ERROR, message=f"Agent execution failed: {err}", code="AGENT_ERROR")
AgentErrorEvent(err) ==
    [type |-> "run_error", code |-> "AGENT_ERROR",
     message |-> <<"Agent execution failed: ", err>>]

\* encoder.encode(event) when it succeeds: the event framed as one data chunk.
Encode(ev) == [sse |-> "data", event |-> ev, error |-> ""]

\* "event: error\ndata: {\"error\": \"Event encoding failed\"}\n\n"
BasicEncodingError == [sse |-> "error", event |-> NoEvent, error |-> "Event encoding failed"]

\* "event: error\ndata: {\"error\": \"Agent execution failed\"}\n\n"
BasicAgentError == [sse |-> "error", event |-> NoEvent, error |-> "Agent execution failed"]

\* One encoder.encode call: its argument, whether the argument came from the
\* source or was built by the bridge, and the text of the exception it raised
\* ("" when it returned).
EncCall(ev, origin, raisedText) == [event |-> ev, origin |-> origin, raised |-> raisedText]

\* Text of an exception the code catches without reading it (except Exception:).
Unread == "unread"

----------------------------------------------------------------------------
(* Values of the market-data tools *)

\* Python values as records: an int or a finite float is num * 10^exp, an
\* infinity carries its sign in num, a str its text.
NoValue == [kind |-> "none", num |-> 0, exp |-> 0, text |-> ""]

MaxNum == 5

\* Decimal exponent of the largest finite float (about 1.8 * 10^308).
FloatMaxExp10 == 308

HugeExp10 == 400

PyInt(n, e) == [kind |-> "int", num |-> n, exp |-> e, text |-> ""]

PyFloat(n, e) == [kind |-> "float", num |-> n, exp |-> e, text |-> ""]

PyNaN == [kind |-> "nan", num |-> 0, exp |-> 0, text |-> ""]

PyInf(sign) == [kind |-> "inf", num |-> sign, exp |-> 0, text |-> ""]

PyStr(t) == [kind |-> "str", num |-> 0, exp |-> 0, text |-> t]

PyBool(b) == [kind |-> "bool", num |-> b, exp |-> 0, text |-> ""]

PyList == [kind |-> "list", num |-> 0, exp |-> 0, text |-> ""]

Texts == {"3.14", "42", "abc", "", "nan", "inf", "-inf", "1e999"}

\* The values safe_float is called with.
PyValues ==
    {NoValue, PyNaN, PyInf(1), PyInf(-1), PyList, PyBool(0), PyBool(1)}
    \cup {PyInt(n, e) : n \in -MaxNum..MaxNum, e \in {0, HugeExp10}}
    \cup {PyFloat(n, e) : n \in -MaxNum..MaxNum, e \in {-2, 0, 2}}
    \cup {PyStr(t) : t \in Texts}

Pending == [state |-> "pending", value |-> NoValue, exc |-> ""]

Returned(v) == [state |-> "returned", value |-> v, exc |-> ""]

Raised(e) == [state |-> "raised", value |-> NoValue, exc |-> e]

\* float() of a str.
float_of_str(t) ==
    CASE t = "3.14"  -> Returned(PyFloat(314, -2))
      [] t = "42"    -> Returned(PyFloat(42, 0))
      [] t = "nan"   -> Returned(PyNaN)
      [] t = "inf"   -> Returned(PyInf(1))
      [] t = "-inf"  -> Returned(PyInf(-1))
      [] t = "1e999" -> Returned(PyInf(1))
      [] OTHER       -> Raised("ValueError")

\* Python's float(value): an int too large for a float raises OverflowError.
float(value) ==
    CASE value.kind = "int" ->
            IF value.num # 0 /\ value.exp > FloatMaxExp10
            THEN Raised("OverflowError")
            ELSE Returned(PyFloat(value.num, value.exp))
      [] value.kind \in {"float", "nan", "inf"} -> Returned(value)
      [] value.kind = "bool" -> Returned(PyFloat(value.num, 0))
      [] value.kind = "str" -> float_of_str(value.text)
      [] OTHER -> Raised("TypeError")

\* safe_float(value)
safe_float(value) ==
    IF value = NoValue THEN Returned(NoValue)
    ELSE LET float_val == float(value)
         IN IF float_val.state = "raised"
            THEN IF float_val.exc \in {"ValueError", "TypeError"}
                 THEN Returned(NoValue)
                 ELSE float_val
            ELSE IF float_val.value.kind \in {"nan", "inf"} THEN Returned(NoValue)
            ELSE float_val

----------------------------------------------------------------------------
(* The market-data tools: dicts, the provider, the records returned *)

\* A dict: a function from keys to values.
EmptyDict == [k \in {} |-> NoValue]

\* d.get(k, default)
DictGet(d, k, default) == IF k \in DOMAIN d THEN d[k] ELSE default

\* bool(v)
Truthy(v) ==
    CASE v.kind = "none" -> FALSE
      [] v.kind \in {"int", "float", "bool"} -> v.num # 0
      [] v.kind = "str" -> v.text # ""
      [] OTHER -> TRUE

\* a or b
Or(a, b) == IF Truthy(a) THEN a ELSE b

\* s.upper() on the tickers of the model.
upper(t) == IF t = "aapl" THEN "AAPL" ELSE t

\* What a tool call did.  fields: the dict returned; data: the list under its
\* "data" key; query: the arguments stock.history was called with.
NoResult == [state |-> "pending", fields |-> EmptyDict, data |-> <<>>, exc |-> "", query |-> ""]

ReturnedRecord(fields, data, query) ==
    [state |-> "returned", fields |-> fields, data |-> data, exc |-> "", query |-> query]

RaisedOut(e) == [state |-> "raised", fields |-> EmptyDict, data |-> <<>>, exc |-> e, query |-> ""]

\* {"ticker": ticker.upper(), key: text}, or the AttributeError of .upper() on
\* a ticker that is not a str.
TickerRecord(ticker, key, text) ==
    IF ticker.kind = "str"
    THEN ReturnedRecord([k \in {"ticker", key} |->
                            IF k = "ticker" THEN PyStr(upper(ticker.text)) ELSE PyStr(text)],
                        <<>>, "")
    ELSE RaisedOut("AttributeError")

\* try: body  except Exception as e: return {"ticker": ticker.upper(),
\* "error": f"{prefix}: {str(e)}"}; the name of the exception stands for
\* its text.
Guarded(ticker, prefix, body) ==
    IF body.state = "raised"
    THEN TickerRecord(ticker, "error", prefix \o ": " \o body.exc)
    ELSE body

\* One entry of a result dict built from stock.info: its name, the info key
\* read, the key read when that one is falsy ("" for none), the default of
\* the get, and whether the value goes through safe_float.
Field(name, key, alt, default, numeric) ==
    [name |-> name, key |-> key, alt |-> alt, default |-> default, numeric |-> numeric]

Num(name, key) == Field(name, key, "", NoValue, TRUE)

Raw(name, key) == Field(name, key, "", NoValue, FALSE)

\* The entries of get_stock_price's result.
StockPriceFields ==
    { Field("currentPrice", "currentPrice", "regularMarketPrice", NoValue, TRUE),
      Num("previousClose", "previousClose"),
      Field("open", "regularMarketOpen", "open", NoValue, TRUE),
      Num("dayHigh", "dayHigh"), Num("dayLow", "dayLow"), Num("volume", "volume"),
      Num("marketCap", "marketCap"),
      Num("fiftyTwoWeekHigh", "fiftyTwoWeekHigh"),
      Num("fiftyTwoWeekLow", "fiftyTwoWeekLow"),
      Field("currency", "currency", "", PyStr("USD"), FALSE),
      Raw("exchange", "exchange"),
      Field("longName", "longName", "shortName", NoValue, FALSE) }

\* The entries of get_financial_info's result.
FinancialInfoFields ==
    { Field("companyName", "longName", "shortName", NoValue, FALSE),
      Raw("sector", "sector"), Raw("industry", "industry"), Raw("website", "website"),
      Raw("description", "longBusinessSummary"), Raw("country", "country"),
      Raw("employees", "fullTimeEmployees"),
      Num("marketCap", "marketCap"), Num("trailingPE", "trailingPE"),
      Num("forwardPE", "forwardPE"), Num("priceToBook", "priceToBook"),
      Num("earningsPerShare", "trailingEps"), Num("revenuePerShare", "revenuePerShare"),
      Num("profitMargins", "profitMargins"), Num("operatingMargins", "operatingMargins"),
      Num("totalRevenue", "totalRevenue"), Num("revenueGrowth", "revenueGrowth"),
      Num("earningsGrowth", "earningsGrowth"),
      Num("targetMeanPrice", "targetMeanPrice"), Num("targetHighPrice", "targetHighPrice"),
      Num("targetLowPrice", "targetLowPrice"),
      Raw("recommendationKey", "recommendationKey"),
      Num("numberOfAnalystOpinions", "numberOfAnalystOpinions"),
      Num("dividendRate", "dividendRate"), Num("dividendYield", "dividendYield"),
      Num("payoutRatio", "payoutRatio"), Raw("exDividendDate", "exDividendDate"),
      Num("beta", "beta"), Num("averageVolume", "averageVolume"),
      Num("averageVolume10days", "averageVolume10days") }

\* The value read from info for an entry, before safe_float.
FieldArg(f, info) ==
    IF f.alt = "" THEN DictGet(info, f.key, f.default)
    ELSE Or(DictGet(info, f.key, NoValue), DictGet(info, f.alt, NoValue))

FieldOf(fields, name) == CHOOSE f \in fields : f.name = name

\* The dict literal {"ticker": ticker.upper(), name: value, ...} followed by
\* the comprehension that drops the None values; an exception of safe_float
\* leaves the dict unbuilt.
BuildRecord(ticker, fields, info) ==
    LET names == {f.name : f \in fields}
        value(n) == LET f == FieldOf(fields, n)
                    IN IF f.numeric THEN safe_float(FieldArg(f, info))
                       ELSE Returned(FieldArg(f, info))
    IN IF ticker.kind # "str" THEN RaisedOut("AttributeError")
       ELSE IF \E n \in names : value(n).state = "raised"
       THEN RaisedOut(value(CHOOSE n \in names : value(n).state = "raised").exc)
       ELSE LET kept == {n \in names : value(n).value # NoValue}
            IN ReturnedRecord([k \in kept \cup {"ticker"} |->
                                  IF k = "ticker" THEN PyStr(upper(ticker.text))
                                  ELSE value(k).value],
                              <<>>, "")

\* Days, and the texts strftime("%Y-%m-%d") gives for them.
DayTexts == <<"2024-01-01", "2024-01-02", "2024-01-03">>

Days == DOMAIN DayTexts

PyDate(d) == [kind |-> "date", num |-> d, exp |-> 0, text |-> ""]

\* date.strftime("%Y-%m-%d")
strftime(date) == DayTexts[date.num]

\* datetime.strptime(text, "%Y-%m-%d"): midnight of the day.
strptime(text) == CHOOSE d \in Days : DayTexts[d] = text

\* The day datetime.now() falls on, some time after its midnight.
Today == 2

\* str(v)
str(v) ==
    CASE v.kind = "str" -> v.text
      [] v.kind = "none" -> "None"
      [] v.kind = "nan" -> "nan"
      [] v.kind = "int" /\ v.exp = 0 /\ v.num = 0 -> "0"
      [] v.kind = "int" /\ v.exp = 0 /\ v.num = 1 -> "1"
      [] v.kind = "date" -> strftime(v) \o " 00:00:00"
      [] OTHER -> "?"

\* pd.notna(v): neither None nor NaN; an infinity is not NA.
notna(v) == v.kind \notin {"none", "nan"}

\* round(f, 2) of a float: half to even on the third decimal; an infinity
\* stays an infinity.
round2(f) ==
    IF f.kind = "float" /\ f.exp = -3
    THEN LET q == f.num \div 10
             rem == f.num % 10
         IN PyFloat(IF rem > 5 \/ (rem = 5 /\ q % 2 = 1) THEN q + 1 ELSE q, -2)
    ELSE f

\* int(v) of a float or an int: the fraction is cut off; NaN raises
\* ValueError and an infinity OverflowError.
int(v) ==
    CASE v.kind = "int" -> Returned(v)
      [] v.kind = "float" ->
            Returned(PyInt(IF v.exp = -2 THEN v.num \div 100
                           ELSE IF v.exp = -3 THEN v.num \div 1000
                           ELSE v.num,
                           IF v.exp < 0 THEN 0 ELSE v.exp))
      [] v.kind = "bool" -> Returned(PyInt(v.num, 0))
      [] v.kind = "nan" -> Raised("ValueError")
      [] v.kind = "inf" -> Raised("OverflowError")
      [] v.kind = "str" -> Raised("ValueError")
      [] OTHER -> Raised("TypeError")

\* A row of a DataFrame: its index under "date", its columns under their names.
Row(date, cols) ==
    [k \in DOMAIN cols \cup {"date"} |-> IF k = "date" THEN date ELSE cols[k]]

\* list[:n]
Take(list, n) == SubSeq(list, 1, IF Len(list) < n THEN Len(list) ELSE n)

\* df.tail(n)
Tail_n(list, n) == SubSeq(list, IF Len(list) > n THEN Len(list) - n + 1 ELSE 1, Len(list))

EarningsLimit == 10

RecommendationsLimit == 20

\* A tool call: the tool, its arguments, and what the provider does for the
\* ticker: stock.info, the frame of the tool (None, or its rows), and
\* whether the first provider access raises.
ToolCall(op, ticker, fails, info, frame, rows, period, start_date, end_date) ==
    [op |-> op, ticker |-> ticker, fails |-> fails, info |-> info,
     frame |-> frame, rows |-> rows,
     period |-> period, start_date |-> start_date, end_date |-> end_date]

NoCall == ToolCall("", NoValue, FALSE, EmptyDict, "none", <<>>, NoValue, NoValue, NoValue)

InfoCall(op, ticker, fails, info) ==
    ToolCall(op, ticker, fails, info, "none", <<>>, NoValue, NoValue, NoValue)

\* get_stock_price(ticker, tool_context)
get_stock_price(ticker, c) ==
    Guarded(ticker, "Failed to fetch stock price",
       IF c.fails THEN RaisedOut("ProviderError")
       ELSE IF c.info = EmptyDict
       THEN TickerRecord(ticker, "error",
               "No data available for this ticker. Please verify the ticker symbol is correct.")
       ELSE LET result == BuildRecord(ticker, StockPriceFields, c.info)
            IN IF result.state = "returned" /\ Cardinality(DOMAIN result.fields) <= 1
               THEN TickerRecord(ticker, "error",
                       "No valid price data available for this ticker")
               ELSE result)

\* get_financial_info(ticker, tool_context)
get_financial_info(ticker, c) ==
    Guarded(ticker, "Failed to fetch financial info",
       IF c.fails THEN RaisedOut("ProviderError")
       ELSE BuildRecord(ticker, FinancialInfoFields, c.info))

FrameCall(op, ticker, fails, info, frame, rows) ==
    ToolCall(op, ticker, fails, info, frame, rows, NoValue, NoValue, NoValue)

\* x if pd.notna(x) else None, x being float(row.get(col, 0)).
FloatIfNotNA(row, col) ==
    IF notna(DictGet(row, col, NoValue))
    THEN float(DictGet(row, col, PyInt(0, 0)))
    ELSE Returned(NoValue)

EarningsColumns ==
    [epsEstimate |-> "EPS Estimate", reportedEPS |-> "Reported EPS", surprise |-> "Surprise(%)"]

\* The first exception among the results rs of a left-to-right evaluation,
\* "" when none raised.
FirstExc(rs) ==
    IF \E i \in DOMAIN rs : rs[i].state = "raised"
    THEN rs[CHOOSE i \in DOMAIN rs :
               /\ rs[i].state = "raised"
               /\ \A j \in DOMAIN rs : rs[j].state = "raised" => i <= j].exc
    ELSE ""

\* The exception building the earnings entry of a row raises, "" if none.
EarningsRowExc(row) ==
    FirstExc(<<FloatIfNotNA(row, "EPS Estimate"), FloatIfNotNA(row, "Reported EPS"),
               FloatIfNotNA(row, "Surprise(%)")>>)

\* The entry appended to earnings_list for a row.
EarningsPoint(row) ==
    [k \in {"date"} \cup DOMAIN EarningsColumns |->
        IF k = "date" THEN PyStr(strftime(row["date"]))
        ELSE FloatIfNotNA(row, EarningsColumns[k]).value]

\* The date of the first entry that is not before now, None when there is none.
Upcoming(list) ==
    LET later == {i \in DOMAIN list : strptime(list[i]["date"].text) > Today}
    IN IF later = {} THEN NoValue
       ELSE list[CHOOSE i \in later : \A j \in later : i <= j]["date"]

\* get_earnings_dates(ticker, tool_context)
get_earnings_dates(ticker, c) ==
    Guarded(ticker, "Failed to fetch earnings dates",
       IF c.fails THEN RaisedOut("ProviderError")
       ELSE IF c.frame = "none" \/ c.rows = <<>>
       THEN TickerRecord(ticker, "message", "No earnings dates available")
       ELSE LET excs == [i \in DOMAIN c.rows |-> Raised(EarningsRowExc(c.rows[i]))]
                earnings_list == [i \in DOMAIN c.rows |-> EarningsPoint(c.rows[i])]
            IN IF \E i \in DOMAIN excs : excs[i].exc # ""
               THEN RaisedOut(excs[CHOOSE i \in DOMAIN excs :
                                      /\ excs[i].exc # ""
                                      /\ \A j \in DOMAIN excs : excs[j].exc # "" => i <= j].exc)
               ELSE IF ticker.kind # "str" THEN RaisedOut("AttributeError")
               ELSE ReturnedRecord(
                       [k \in {"ticker", "upcomingEarningsDate", "data"} |->
                           CASE k = "ticker" -> PyStr(upper(ticker.text))
                             [] k = "upcomingEarningsDate" -> Upcoming(earnings_list)
                             [] k = "data" -> PyList],
                       Take(earnings_list, EarningsLimit), ""))

\* str(x) if pd.notna(x) else None, x being row.get(col, '').
StrIfNotNA(row, col) ==
    IF notna(DictGet(row, col, NoValue))
    THEN PyStr(str(DictGet(row, col, PyStr(""))))
    ELSE NoValue

\* The entry appended to recs_list for a row.
RecommendationPoint(row) ==
    [k \in {"date", "firm", "toGrade", "fromGrade", "action"} |->
        CASE k = "date" -> IF row["date"].kind = "date" THEN PyStr(strftime(row["date"]))
                           ELSE PyStr(str(row["date"]))
          [] k = "firm" -> PyStr(str(DictGet(row, "Firm", PyStr(""))))
          [] k = "toGrade" -> PyStr(str(DictGet(row, "To Grade", PyStr(""))))
          [] k = "fromGrade" -> StrIfNotNA(row, "From Grade")
          [] k = "action" -> StrIfNotNA(row, "Action")]

\* get_analyst_recommendations(ticker, tool_context)
get_analyst_recommendations(ticker, c) ==
    Guarded(ticker, "Failed to fetch analyst recommendations",
       IF c.fails THEN RaisedOut("ProviderError")
       ELSE IF c.frame = "none" \/ c.rows = <<>>
       THEN IF ticker.kind # "str" THEN RaisedOut("AttributeError")
            ELSE IF Truthy(DictGet(c.info, "recommendationKey", NoValue))
            THEN ReturnedRecord(
                    [k \in {"ticker", "currentRecommendation", "message"} |->
                        CASE k = "ticker" -> PyStr(upper(ticker.text))
                          [] k = "currentRecommendation" -> c.info["recommendationKey"]
                          [] k = "message" ->
                                PyStr("Detailed recommendations history not available")],
                    <<>>, "")
            ELSE TickerRecord(ticker, "message", "No analyst recommendations available")
       ELSE LET recent == Tail_n(c.rows, RecommendationsLimit)
                recs_list == [i \in DOMAIN recent |-> RecommendationPoint(recent[i])]
            IN IF ticker.kind # "str" THEN RaisedOut("AttributeError")
               ELSE ReturnedRecord(
                       [k \in {"ticker", "totalRecommendations", "data"} |->
                           CASE k = "ticker" -> PyStr(upper(ticker.text))
                             [] k = "totalRecommendations" -> PyInt(Len(recs_list), 0)
                             [] k = "data" -> PyList],
                       recs_list, ""))

OHLC == [open |-> "Open", high |-> "High", low |-> "Low", close |-> "Close"]

\* pd.notna of the five columns of a row.
AllNotNA(row) ==
    \A col \in {"Open", "High", "Low", "Close", "Volume"} : notna(DictGet(row, col, NoValue))

\* The conversions of a row, in the order they are evaluated.
RowConversions(row) ==
    <<float(row["Open"]), float(row["High"]), float(row["Low"]), float(row["Close"]),
      int(row["Volume"])>>

\* The row passes the notna test and its conversions raise nothing.
RowKept(row) == AllNotNA(row) /\ FirstExc(RowConversions(row)) = ""

\* The row passes the notna test and a conversion raises something other
\* than ValueError or TypeError: the exception leaves the loop.
RowAborts(row) ==
    AllNotNA(row) /\ FirstExc(RowConversions(row)) \notin {"", "ValueError", "TypeError"}

\* The entry appended to hist_data for a row.
HistoryPoint(row) ==
    [k \in {"date", "volume"} \cup DOMAIN OHLC |->
        CASE k = "date" -> PyStr(strftime(row["date"]))
          [] k = "volume" -> int(row["Volume"]).value
          [] OTHER -> round2(float(row[OHLC[k]]).value)]

\* A reading that takes the date range as soon as one of the dates is given.
UsesRange_Either(start_date, end_date) == Truthy(start_date) \/ Truthy(end_date)

\* if start_date and end_date:
UsesRange(start_date, end_date) == Truthy(start_date) /\ Truthy(end_date)

\* The str a date argument puts into an f-string.
DateText(d) == str(d)

\* period: str = "1mo"
DefaultPeriod == PyStr("1mo")

\* An argument the caller leaves out.
Omitted == [kind |-> "omitted", num |-> 0, exp |-> 0, text |-> ""]

\* get_historical_data(ticker, period, start_date, end_date, tool_context)
get_historical_data(ticker, period, start_date, end_date, c) ==
    LET ranged == UsesRange(start_date, end_date)
        period_used == IF ranged
                       THEN PyStr(DateText(start_date) \o " to " \o DateText(end_date))
                       ELSE period
        query == IF ranged
                 THEN "start=" \o DateText(start_date) \o ",end=" \o DateText(end_date)
                 ELSE "period=" \o period.text
        aborting == {i \in DOMAIN c.rows : RowAborts(c.rows[i])}
        kept == SelectSeq(c.rows, RowKept)
        hist_data == [i \in DOMAIN kept |-> HistoryPoint(kept[i])]
        body ==
           IF c.fails THEN RaisedOut("ProviderError")
           ELSE IF c.rows = <<>>
           THEN TickerRecord(ticker, "error",
                   "No historical data available for the specified period")
           ELSE IF aborting # {}
           THEN RaisedOut(FirstExc(RowConversions(
                   c.rows[CHOOSE i \in aborting : \A j \in aborting : i <= j])))
           ELSE IF hist_data = <<>>
           THEN TickerRecord(ticker, "error",
                   "No valid historical data points found (all values were NaN or invalid)")
           ELSE IF ticker.kind # "str" THEN RaisedOut("AttributeError")
           ELSE ReturnedRecord(
                   [k \in {"ticker", "period", "dataPoints", "data"} |->
                       CASE k = "ticker" -> PyStr(upper(ticker.text))
                         [] k = "period" -> period_used
                         [] k = "dataPoints" -> PyInt(Len(hist_data), 0)
                         [] k = "data" -> PyList],
                   hist_data, query)
        result == Guarded(ticker, "Failed to fetch historical data", body)
    IN IF result.state = "returned"
       THEN [result EXCEPT !.query = query] ELSE result

----------------------------------------------------------------------------
(* Session registry *)

\* create_agent(thread_id): a new ADKAgent; n is the identity of the new object.
create_agent(thread_id, n) ==
    [inst |-> n, user_id |-> thread_id,
     session_timeout_seconds |-> SESSION_TIMEOUT_SECONDS]

\* A bug that drops the membership test: every call creates and rebinds.
get_agent_AlwaysCreates(S, log, thread_id) ==
    LET a == create_agent(thread_id, Len(log) + 1)
    IN [sessions |-> [t \in DOMAIN S \cup {thread_id} |->
                         IF t = thread_id THEN a ELSE S[t]],
        created  |-> Append(log, thread_id),
        agent    |-> a]

\* A bug that hands a caller finding the id registered an agent of its own.
get_agent_FreshForLater(S, log, thread_id) ==
    LET a == create_agent(thread_id, Len(log) + 1)
    IN [sessions |-> [t \in DOMAIN S \cup {thread_id} |->
                         IF t \in DOMAIN S THEN S[t] ELSE a],
        created  |-> Append(log, thread_id),
        agent    |-> a]

\* A bug that binds every new thread id to the one agent built first.
get_agent_SharedInstance(S, log, thread_id) ==
    IF thread_id \notin DOMAIN S
    THEN LET a == IF DOMAIN S = {} THEN create_agent(thread_id, Len(log) + 1)
                  ELSE S[CHOOSE t \in DOMAIN S : TRUE]
         IN [sessions |-> [t \in DOMAIN S \cup {thread_id} |->
                              IF t = thread_id THEN a ELSE S[t]],
             created  |-> Append(log, thread_id),
             agent    |-> a]
    ELSE [sessions |-> S, created |-> log, agent |-> S[thread_id]]

\* SessionManager.get_agent: the registry, the creation log and the returned
\* agent after the call.
get_agent(S, log, thread_id) ==
    IF thread_id \notin DOMAIN S
    THEN LET a == create_agent(thread_id, Len(log) + 1)
         IN [sessions |-> [t \in DOMAIN S \cup {thread_id} |->
                              IF t = thread_id THEN a ELSE S[t]],
             created  |-> Append(log, thread_id),
             agent    |-> a]
    ELSE [sessions |-> S, created |-> log, agent |-> S[thread_id]]

NoAgent == [inst |-> 0, user_id |-> "", session_timeout_seconds |-> 0]

\* The state of a session nothing was stored in yet (use_in_memory_services).
EmptyStore == [k \in {} |-> 0]

\* A bug that counts the streams in progress instead of the registered sessions.
health_check_CountsStreams(S) ==
    [status |-> "healthy", agent |-> "google_search_assistant",
     tools |-> <<"google_search">>,
     active_sessions |-> Cardinality({r \in Requests : pc[r] = "streaming"})]

\* health_check: the body of GET /health, S being session_manager.sessions.
health_check(S) ==
    [status |-> "healthy", agent |-> "google_search_assistant",
     tools |-> <<"google_search">>,
     active_sessions |-> Cardinality(DOMAIN S)]

NoBody == [status |-> "", agent |-> "", tools |-> <<>>, active_sessions |-> -1]

----------------------------------------------------------------------------
ServerInit ==
    /\ sessions = [t \in {} |-> NoAgent]
    /\ created = <<>>
    /\ idle = [t \in {} |-> 0]
    /\ pc = [r \in Requests |-> "new"]
    /\ thread = [r \in Requests |-> ""]
    /\ agent = [r \in Requests |-> NoAgent]
    /\ consumed = [r \in Requests |-> <<>>]
    /\ encLog = [r \in Requests |-> <<>>]
    /\ srcRaised = [r \in Requests |-> ""]
    /\ out = [r \in Requests |-> <<>>]
    /\ reqHeaders = [r \in Requests |-> NoHeaders]
    /\ health = [r \in Requests |-> NoBody]
    /\ store = [t \in {} |-> EmptyStore]
    /\ stageLog = [r \in Requests |-> <<>>]

Init ==
    /\ ServerInit
    /\ sfValue = NoValue
    /\ sfResult = Pending
    /\ call = NoCall
    /\ ret = NoResult

RECURSIVE SumLen(_, _)
SumLen(f, S) ==
    IF S = {} THEN 0
    ELSE LET x == CHOOSE y \in S : TRUE IN Len(f[x]) + SumLen(f, S \ {x})

EventsPulled == SumLen(consumed, Requests)

\* POST /: handle_request up to the return of the StreamingResponse, whose
\* event_generator then starts agent.run(input_data).
handle_request(r, headers) ==
    /\ pc[r] = "new"
    /\ r > 1 => pc[r - 1] # "new"
    /\ LET thread_id == HeaderGet(headers, ThreadIdHeader, DefaultThread)
           g == get_agent(sessions, created, thread_id)
       IN /\ sessions' = g.sessions
          /\ created' = g.created
          /\ agent' = [agent EXCEPT ![r] = g.agent]
          /\ thread' = [thread EXCEPT ![r] = thread_id]
          /\ idle' = [t \in DOMAIN g.sessions |->
                         IF t = thread_id THEN 0 ELSE idle[t]]
          /\ store' = [t \in DOMAIN g.sessions |->
                          IF t \in DOMAIN store THEN store[t] ELSE EmptyStore]
    /\ reqHeaders' = [reqHeaders EXCEPT ![r] = headers]
    /\ pc' = [pc EXCEPT ![r] = "streaming"]
    /\ UNCHANGED <<consumed, encLog, srcRaised, out>>
    /\ UNCHANGED <<health, stageLog, toolVars>>

\* GET /health: the handler of request r answers with health_check's body.
health_request(r) ==
    /\ pc[r] = "new"
    /\ r > 1 => pc[r - 1] # "new"
    /\ health' = [health EXCEPT ![r] = health_check(sessions)]
    /\ pc' = [pc EXCEPT ![r] = "responded"]
    /\ UNCHANGED <<sessions, created, idle, thread, agent, consumed, encLog, srcRaised, out>>
    /\ UNCHANGED <<reqHeaders, pipeVars, toolVars>>

\* A bug that relays each new chunk ahead of the chunks already emitted.
EventEncoded_Reordered(r, ev) ==
    /\ pc[r] = "streaming"
    /\ EventsPulled < MaxEvents
    /\ consumed' = [consumed EXCEPT ![r] = Append(@, ev)]
    /\ encLog' = [encLog EXCEPT ![r] = Append(@, EncCall(ev, "source", ""))]
    /\ out' = [out EXCEPT ![r] = <<Encode(ev)>> \o @]
    /\ UNCHANGED <<sessions, created, idle, pc, thread, agent, srcRaised>>
    /\ UNCHANGED <<httpVars, pipeVars, toolVars>>

\* event_generator, lines 109-113: the source yields ev, the encoder encodes
\* it, the chunk is yielded; the loop goes on.
\* A bug that yields the chunk of an event twice.
EventEncoded_Duplicates(r, ev) ==
    /\ pc[r] = "streaming"
    /\ EventsPulled < MaxEvents
    /\ consumed' = [consumed EXCEPT ![r] = Append(@, ev)]
    /\ encLog' = [encLog EXCEPT ![r] = Append(@, EncCall(ev, "source", ""))]
    /\ out' = [out EXCEPT ![r] = @ \o <<Encode(ev), Encode(ev)>>]
    /\ UNCHANGED <<sessions, created, idle, pc, thread, agent, srcRaised>>
    /\ UNCHANGED <<httpVars, pipeVars, toolVars>>

\* event_generator, lines 109-113: the next event of agent.run is encoded and
\* yielded.
EventEncoded(r, ev) ==
    /\ pc[r] = "streaming"
    /\ EventsPulled < MaxEvents
    /\ consumed' = [consumed EXCEPT ![r] = Append(@, ev)]
    /\ encLog' = [encLog EXCEPT ![r] = Append(@, EncCall(ev, "source", ""))]
    /\ out' = [out EXCEPT ![r] = Append(@, Encode(ev))]
    /\ UNCHANGED <<sessions, created, idle, pc, thread, agent, srcRaised>>
    /\ UNCHANGED <<httpVars, pipeVars, toolVars>>

\* A bug that yields the literal chunk after the encoded error event as well.
EncodingErrorChunks_Both(err, errOk) ==
    IF errOk THEN <<Encode(EncodingErrorEvent(err)), BasicEncodingError>>
    ELSE <<BasicEncodingError>>

\* A bug that gives up silently when the error event cannot be encoded.
EncodingErrorChunks_Silent(err, errOk) ==
    IF errOk THEN <<Encode(EncodingErrorEvent(err))>> ELSE <<>>

\* event_generator, lines 118-129: what is yielded once encoder.encode(event)
\* has raised err: the encoded ENCODING_ERROR event, or the literal chunk when
\* encoding that raises too (errOk = FALSE).
EncodingErrorChunks(err, errOk) ==
    IF errOk THEN <<Encode(EncodingErrorEvent(err))>> ELSE <<BasicEncodingError>>

\* A bug that uses the literal chunk of the encoding path on this path too.
AgentErrorChunks_SameLiteral(err, errOk) ==
    IF errOk THEN <<Encode(AgentErrorEvent(err))>> ELSE <<BasicEncodingError>>

\* A bug that swallows the failure of agent.run.
AgentErrorChunks_Swallowed(err, errOk) == <<>>

\* A bug that reports the failure of agent.run under the encoding code.
AgentErrorChunks_WrongCode(err, errOk) ==
    IF errOk THEN <<Encode(EncodingErrorEvent(err))>> ELSE <<BasicAgentError>>

\* event_generator, lines 136-147: what is yielded once agent.run has raised
\* err: the encoded AGENT_ERROR event, or the literal chunk.
AgentErrorChunks(err, errOk) ==
    IF errOk THEN <<Encode(AgentErrorEvent(err))>> ELSE <<BasicAgentError>>

\* A bug that leaves out the break of line 130: the loop goes on.
EncodingFailed_NoBreak(r, ev, err, errOk) ==
    /\ pc[r] = "streaming"
    /\ EventsPulled < MaxEvents
    /\ consumed' = [consumed EXCEPT ![r] = Append(@, ev)]
    /\ encLog' = [encLog EXCEPT ![r] =
                     @ \o <<EncCall(ev, "source", err),
                            EncCall(EncodingErrorEvent(err), "bridge",
                                    IF errOk THEN "" ELSE Unread)>>]
    /\ out' = [out EXCEPT ![r] = @ \o EncodingErrorChunks(err, errOk)]
    /\ UNCHANGED <<sessions, created, idle, pc, thread, agent, srcRaised>>
    /\ UNCHANGED <<httpVars, pipeVars, toolVars>>

\* event_generator, lines 114-130: encoder.encode(ev) raises err; the
\* ENCODING_ERROR event is built and encoded (errOk) or that raises too; the
\* loop is left.
EncodingFailed(r, ev, err, errOk) ==
    /\ pc[r] = "streaming"
    /\ EventsPulled < MaxEvents
    /\ consumed' = [consumed EXCEPT ![r] = Append(@, ev)]
    /\ encLog' = [encLog EXCEPT ![r] =
                     @ \o <<EncCall(ev, "source", err),
                            EncCall(EncodingErrorEvent(err), "bridge",
                                    IF errOk THEN "" ELSE Unread)>>]
    /\ out' = [out EXCEPT ![r] = @ \o EncodingErrorChunks(err, errOk)]
    /\ pc' = [pc EXCEPT ![r] = "encoding_error"]
    /\ UNCHANGED <<sessions, created, idle, thread, agent, srcRaised>>
    /\ UNCHANGED <<httpVars, pipeVars, toolVars>>

\* event_generator: the async for ends because agent.run is exhausted.
SourceCompleted(r) ==
    /\ pc[r] = "streaming"
    /\ pc' = [pc EXCEPT ![r] = "complete"]
    /\ UNCHANGED <<sessions, created, idle, thread, agent, consumed, encLog, srcRaised, out>>
    /\ UNCHANGED <<httpVars, pipeVars, toolVars>>

\* A bug that drops the session of a request whose agent.run raised.
SourceRaised_DropsSession(r, err, errOk) ==
    /\ pc[r] = "streaming"
    /\ srcRaised' = [srcRaised EXCEPT ![r] = err]
    /\ encLog' = [encLog EXCEPT ![r] =
                     Append(@, EncCall(AgentErrorEvent(err), "bridge",
                                       IF errOk THEN "" ELSE Unread))]
    /\ out' = [out EXCEPT ![r] = @ \o AgentErrorChunks(err, errOk)]
    /\ pc' = [pc EXCEPT ![r] = "agent_error"]
    /\ sessions' = [t \in DOMAIN sessions \ {thread[r]} |-> sessions[t]]
    /\ UNCHANGED <<created, idle, thread, agent, consumed>>
    /\ UNCHANGED <<httpVars, pipeVars, toolVars>>

\* event_generator, lines 131-147: agent.run raises err; the AGENT_ERROR event
\* is built and encoded (errOk) or that raises too; the generator returns.
SourceRaised(r, err, errOk) ==
    /\ pc[r] = "streaming"
    /\ srcRaised' = [srcRaised EXCEPT ![r] = err]
    /\ encLog' = [encLog EXCEPT ![r] =
                     Append(@, EncCall(AgentErrorEvent(err), "bridge",
                                       IF errOk THEN "" ELSE Unread))]
    /\ out' = [out EXCEPT ![r] = @ \o AgentErrorChunks(err, errOk)]
    /\ pc' = [pc EXCEPT ![r] = "agent_error"]
    /\ UNCHANGED <<sessions, created, idle, thread, agent, consumed>>
    /\ UNCHANGED <<httpVars, pipeVars, toolVars>>

\* A bug that catches the cancellation like a failure of agent.run (except
\* BaseException) and yields the literal chunk.
ClientDisconnected_Reported(r) ==
    /\ pc[r] = "streaming"
    /\ pc' = [pc EXCEPT ![r] = "disconnected"]
    /\ out' = [out EXCEPT ![r] = Append(@, BasicAgentError)]
    /\ UNCHANGED <<sessions, created, idle, thread, agent, consumed, encLog, srcRaised>>
    /\ UNCHANGED <<httpVars, pipeVars, toolVars>>

\* The client goes away: the generator is cancelled at its suspension point
\* (CancelledError / GeneratorExit are not Exception, so neither handler runs).
ClientDisconnected(r) ==
    /\ pc[r] = "streaming"
    /\ pc' = [pc EXCEPT ![r] = "disconnected"]
    /\ UNCHANGED <<sessions, created, idle, thread, agent, consumed, encLog, srcRaised, out>>
    /\ UNCHANGED <<httpVars, pipeVars, toolVars>>

\* A session is in use while a stream of one of its requests is running.
InUse(t) == \E r \in Requests : pc[r] = "streaming" /\ thread[r] = t

\* Time passes for the sessions that are not in use; nothing in the process
\* reacts to it.  Past the timeout the idle time is no longer counted.
\* A sweep that removes the sessions idle for longer than the timeout.
Tick_Evicts ==
    /\ \E t \in DOMAIN idle : ~InUse(t) /\ idle[t] <= SESSION_TIMEOUT_SECONDS
    /\ idle' = [t \in DOMAIN idle |->
                   IF ~InUse(t) /\ idle[t] <= SESSION_TIMEOUT_SECONDS
                   THEN idle[t] + TickSeconds ELSE idle[t]]
    /\ sessions' = [t \in {u \in DOMAIN sessions :
                               idle'[u] <= SESSION_TIMEOUT_SECONDS} |-> sessions[t]]
    /\ UNCHANGED <<created, pc, thread, agent, consumed, encLog, srcRaised, out>>
    /\ UNCHANGED <<httpVars, pipeVars, toolVars>>

Tick ==
    /\ \E t \in DOMAIN idle : ~InUse(t) /\ idle[t] <= SESSION_TIMEOUT_SECONDS
    /\ idle' = [t \in DOMAIN idle |->
                   IF ~InUse(t) /\ idle[t] <= SESSION_TIMEOUT_SECONDS
                   THEN idle[t] + TickSeconds ELSE idle[t]]
    /\ UNCHANGED <<sessions, created, pc, thread, agent, consumed, encLog, srcRaised, out>>
    /\ UNCHANGED <<httpVars, pipeVars, toolVars>>

\* One step of the server: a request arrives, or one stream advances, or time
\* passes.  R: the requests that may arrive, H: the headers they may carry,
\* EV: the events a source may yield, TX: the texts an exception may carry.
Step(R, H, EV, TX) ==
    \/ \E r \in R, h \in H : handle_request(r, h)
    \/ \E r \in R : health_request(r)
    \/ \E r \in R, ev \in EV : EventEncoded(r, ev)
    \/ \E r \in R, ev \in EV, err \in TX, errOk \in BOOLEAN :
          EncodingFailed(r, ev, err, errOk)
    \/ \E r \in R : SourceCompleted(r)
    \/ \E r \in R, err \in TX, errOk \in BOOLEAN : SourceRaised(r, err, errOk)
    \/ \E r \in R : ClientDisconnected(r)
    \/ Tick

\* The server under concurrent requests; the sources yield one kind of event.
Next == Step(Requests, RequestHeaders, {ContentDelta}, {"e1"})

Spec == Init /\ [][Next]_vars

\* One request alone, its source yielding every kind of event.
StreamNext == Step({1}, RequestHeaders, SourceEvents, FailureTexts)

StreamSpec == Init /\ [][StreamNext]_vars

\* The generator of request r takes a step of its own: the event loop resumes
\* it whenever its source has an event, has completed or has raised.
StreamAdvances(r) ==
    \/ \E ev \in SourceEvents : EventEncoded(r, ev)
    \/ \E ev \in SourceEvents, err \in FailureTexts, errOk \in BOOLEAN :
          EncodingFailed(r, ev, err, errOk)
    \/ SourceCompleted(r)
    \/ \E err \in FailureTexts, errOk \in BOOLEAN : SourceRaised(r, err, errOk)

\* StreamSpec with a source that does not stall and a loop that schedules the
\* generator.
FairStreamSpec == StreamSpec /\ WF_vars(StreamAdvances(1))

----------------------------------------------------------------------------
(* The four analyst sub-agents and the session state they share *)

Stages == 1..4

MaxStageRuns == 3

\* The state key each analyst's result is stored under.
produces_key(s) ==
    CASE s = 1 -> "market_data_analysis_output"
      [] s = 2 -> "proposed_trading_strategies_output"
      [] s = 3 -> "execution_plan_output"
      [] s = 4 -> "final_risk_assessment_output"

StageKeys == {produces_key(s) : s \in Stages}

\* A reading of the risk analyst's prompt that takes its RECOMMENDED keys as
\* mandatory too.
required_keys_AllPrior(s) ==
    CASE s = 1 -> {}
      [] s = 2 -> {produces_key(1)}
      [] s = 3 -> {produces_key(2)}
      [] s = 4 -> {produces_key(1), produces_key(2), produces_key(3)}

\* The state keys an analyst's prompt marks as required / MANDATORY.
required_keys(s) ==
    CASE s = 1 -> {}
      [] s = 2 -> {produces_key(1)}
      [] s = 3 -> {produces_key(2)}
      [] s = 4 -> {produces_key(3)}

\* The value a client supplies for a key in the state of its run input.
ClientValue == 0

\* One call of an analyst through its AgentTool on session state st, by a
\* language model that follows its prompt: the model is invoked with the
\* prompt, looks the required keys up itself and, when one is missing,
\* answers with the "Error: ..." text naming it and stores nothing; otherwise
\* its result is stored under its key, replacing what was there.  n numbers
\* the call, so that two results are never equal.
run_stage(s, st, n) ==
    LET missing == required_keys(s) \ DOMAIN st
    IN IF missing # {}
       THEN [store  |-> st,
             result |-> [stage |-> s, before |-> DOMAIN st, engine |-> TRUE,
                         halted |-> TRUE,
                         missing |-> CHOOSE k \in missing : TRUE,
                         event |-> "text_message", wrote |-> ""]]
       ELSE [store  |-> [k \in DOMAIN st \cup {produces_key(s)} |->
                            IF k = produces_key(s) THEN n ELSE st[k]],
             result |-> [stage |-> s, before |-> DOMAIN st, engine |-> TRUE,
                         halted |-> FALSE, missing |-> "",
                         event |-> "text_message", wrote |-> produces_key(s)]]

StageRuns == SumLen(stageLog, Requests)

\* The coordinator of the run of request r calls analyst s; it may call any
\* of its tools at any point of the run.
StageRun(r, s) ==
    /\ pc[r] = "streaming"
    /\ StageRuns < MaxStageRuns
    /\ LET res == run_stage(s, store[thread[r]], StageRuns + 1)
       IN /\ store' = [store EXCEPT ![thread[r]] = res.store]
          /\ stageLog' = [stageLog EXCEPT ![r] = Append(@, res.result)]
    /\ UNCHANGED <<sessions, created, idle, pc, thread, agent, consumed, encLog, srcRaised, out>>
    /\ UNCHANGED <<httpVars, toolVars>>

\* The run of request r starts with the state its input carries: the keys K
\* the session does not hold yet enter the session state.
StateReceived(r, K) ==
    /\ pc[r] = "streaming"
    /\ stageLog[r] = <<>>
    /\ K \cap DOMAIN store[thread[r]] = {}
    /\ store' = [store EXCEPT ![thread[r]] =
                    [k \in DOMAIN @ \cup K |-> IF k \in K THEN ClientValue ELSE @[k]]]
    /\ UNCHANGED <<sessions, created, idle, pc, thread, agent, consumed, encLog, srcRaised, out>>
    /\ UNCHANGED <<httpVars, stageLog, toolVars>>

\* Runs of the coordinator on one session, one request after the other has
\* completed.
PipelineNext ==
    \/ \E r \in Requests : (r > 1 => pc[r - 1] = "complete") /\ handle_request(r, NoHeaders)
    \/ \E r \in Requests, K \in SUBSET StageKeys \ {{}} : StateReceived(r, K)
    \/ \E r \in Requests, s \in Stages : StageRun(r, s)
    \/ \E r \in Requests : SourceCompleted(r)

PipelineSpec == Init /\ [][PipelineNext]_vars

\* A market-data tool passes a value to safe_float.
safe_float_call ==
    /\ sfResult = Pending
    /\ sfResult' = safe_float(sfValue)
    /\ UNCHANGED <<sessions, created, idle, pc, thread, agent, consumed, encLog, srcRaised, out>>
    /\ UNCHANGED <<httpVars, pipeVars, sfValue, call, ret>>

ToolInit ==
    /\ ServerInit
    /\ sfValue \in PyValues
    /\ sfResult = Pending
    /\ call = NoCall
    /\ ret = NoResult

ToolSpec == ToolInit /\ [][safe_float_call]_vars

----------------------------------------------------------------------------
(* Calls of the market-data tools *)

\* The tickers a tool is called with: a symbol, or no str at all.
Tickers == {PyStr("aapl"), NoValue}

\* The values stock.info may hold under the keys the model varies.
InfoValues(k) ==
    CASE k \in {"currentPrice", "marketCap"} ->
            <<PyFloat(15025, -2), PyNaN, PyInt(3, HugeExp10)>>
      [] k = "regularMarketPrice" -> <<PyFloat(14900, -2)>>
      [] k = "currency" -> <<PyStr("EUR"), NoValue>>
      [] k = "fullTimeEmployees" -> <<PyInt(5, 0), PyNaN>>
      [] k = "sector" -> <<PyStr("Technology")>>
      [] k = "recommendationKey" -> <<PyStr("buy")>>

InfoKeys == {"currentPrice", "marketCap", "regularMarketPrice", "currency",
             "fullTimeEmployees", "sector", "recommendationKey"}

\* The dicts stock.info may be: each key absent (choice 0) or holding one of
\* its values.
InfoDicts ==
    {[k \in {j \in InfoKeys : ch[j] > 0} |-> InfoValues(k)[ch[k]]] :
        ch \in {c \in [InfoKeys -> 0..3] : \A k \in InfoKeys : c[k] <= Len(InfoValues(k))}}

InfoCalls(op) ==
    {InfoCall(op, t, FALSE, i) : t \in Tickers, i \in InfoDicts}
    \cup {InfoCall(op, t, TRUE, EmptyDict) : t \in Tickers}

MaxRows == 2

\* The frames a provider may give: up to MaxRows rows, each one of the
\* templates.
Frames(templates) ==
    UNION {[1..n -> templates] : n \in 0..MaxRows}

\* The rows of stock.history(): row i carries day i; all five columns finite,
\* or one of them NaN, None, an infinity or a text.
HistoryColumns(open, high, low, close, volume) ==
    [Open |-> open, High |-> high, Low |-> low, Close |-> close, Volume |-> volume]

HistoryTemplates ==
    { HistoryColumns(PyFloat(10050, -2), PyFloat(10100, -2), PyFloat(10000, -2),
                     PyFloat(10075, -2), PyInt(1000, 0)),
      HistoryColumns(PyFloat(12345, -3), PyFloat(12400, -2), PyFloat(12300, -2),
                     PyFloat(12355, -3), PyFloat(250050, -2)),
      HistoryColumns(PyNaN, PyFloat(10100, -2), PyFloat(10000, -2),
                     PyFloat(10075, -2), PyInt(1000, 0)),
      HistoryColumns(PyFloat(10050, -2), PyFloat(10100, -2), PyFloat(10000, -2),
                     NoValue, PyInt(1000, 0)),
      HistoryColumns(PyFloat(10050, -2), PyInf(1), PyFloat(10000, -2),
                     PyFloat(10075, -2), PyInt(1000, 0)),
      HistoryColumns(PyFloat(10050, -2), PyFloat(10100, -2), PyFloat(10000, -2),
                     PyFloat(10075, -2), PyInf(1)),
      HistoryColumns(PyFloat(10050, -2), PyFloat(10100, -2), PyStr("abc"),
                     PyFloat(10075, -2), PyInt(1000, 0)) }

HistoryFrames ==
    {[i \in DOMAIN f |-> Row(PyDate(i), f[i])] : f \in Frames(HistoryTemplates)}

Periods == {Omitted, PyStr("1y")}

StartDates == {NoValue, PyStr(""), PyStr("2024-01-01")}

EndDates == {NoValue, PyStr(""), PyStr("2024-01-03")}

HistoryCalls ==
    {ToolCall("get_historical_data", t, FALSE, EmptyDict, "frame", f, p, sd, ed) :
        t \in Tickers, f \in HistoryFrames, p \in Periods, sd \in StartDates, ed \in EndDates}
    \cup {ToolCall("get_historical_data", t, TRUE, EmptyDict, "none", <<>>, p, NoValue, NoValue) :
             t \in Tickers, p \in Periods}

\* The rows of stock.earnings_dates.
EarningsRow(day, eps, reported) ==
    Row(PyDate(day), [k \in {"EPS Estimate", "Reported EPS", "Surprise(%)"} |->
                         CASE k = "EPS Estimate" -> eps
                           [] k = "Reported EPS" -> reported
                           [] k = "Surprise(%)" -> IF reported.kind = "float"
                                                   THEN PyFloat(150, -2) ELSE PyNaN])

EarningsTemplates ==
    { EarningsRow(3, PyFloat(210, -2), PyNaN),
      EarningsRow(2, PyFloat(205, -2), PyNaN),
      EarningsRow(1, PyFloat(200, -2), PyFloat(203, -2)),
      EarningsRow(1, PyNaN, PyFloat(203, -2)),
      EarningsRow(1, PyInf(1), PyFloat(203, -2)),
      EarningsRow(1, PyStr("abc"), PyFloat(203, -2)) }

\* The rows of stock.recommendations.
RecommendationRow(date, from, action) ==
    Row(date, [k \in {"Firm", "To Grade", "From Grade", "Action"} |->
                  CASE k = "Firm" -> PyStr("Morgan Stanley")
                    [] k = "To Grade" -> PyStr("buy")
                    [] k = "From Grade" -> from
                    [] k = "Action" -> action])

RecommendationTemplates ==
    { RecommendationRow(PyDate(1), PyStr("hold"), PyStr("up")),
      RecommendationRow(PyDate(2), PyNaN, PyStr("init")),
      RecommendationRow(PyInt(0, 0), PyStr("hold"), NoValue) }

FrameCalls(op, templates, infos) ==
    {FrameCall(op, t, FALSE, i, "frame", f) :
        t \in Tickers, i \in infos, f \in Frames(templates)}
    \cup {FrameCall(op, t, FALSE, i, "none", <<>>) : t \in Tickers, i \in infos}
    \cup {FrameCall(op, t, TRUE, EmptyDict, "none", <<>>) : t \in Tickers}

RecommendationInfos ==
    {EmptyDict, [k \in {"recommendationKey"} |-> PyStr("buy")],
     [k \in {"recommendationKey"} |-> NoValue]}

get_stock_price_call ==
    /\ ret = NoResult
    /\ call.op = "get_stock_price"
    /\ ret' = get_stock_price(call.ticker, call)
    /\ UNCHANGED <<sessions, created, idle, pc, thread, agent, consumed, encLog, srcRaised, out>>
    /\ UNCHANGED <<httpVars, pipeVars, sfValue, sfResult, call>>

get_historical_data_call ==
    /\ ret = NoResult
    /\ call.op = "get_historical_data"
    /\ ret' = get_historical_data(call.ticker,
                                  IF call.period = Omitted THEN DefaultPeriod
                                  ELSE call.period,
                                  call.start_date, call.end_date, call)
    /\ UNCHANGED <<sessions, created, idle, pc, thread, agent, consumed, encLog, srcRaised, out>>
    /\ UNCHANGED <<httpVars, pipeVars, sfValue, sfResult, call>>

get_financial_info_call ==
    /\ ret = NoResult
    /\ call.op = "get_financial_info"
    /\ ret' = get_financial_info(call.ticker, call)
    /\ UNCHANGED <<sessions, created, idle, pc, thread, agent, consumed, encLog, srcRaised, out>>
    /\ UNCHANGED <<httpVars, pipeVars, sfValue, sfResult, call>>

get_earnings_dates_call ==
    /\ ret = NoResult
    /\ call.op = "get_earnings_dates"
    /\ ret' = get_earnings_dates(call.ticker, call)
    /\ UNCHANGED <<sessions, created, idle, pc, thread, agent, consumed, encLog, srcRaised, out>>
    /\ UNCHANGED <<httpVars, pipeVars, sfValue, sfResult, call>>

get_analyst_recommendations_call ==
    /\ ret = NoResult
    /\ call.op = "get_analyst_recommendations"
    /\ ret' = get_analyst_recommendations(call.ticker, call)
    /\ UNCHANGED <<sessions, created, idle, pc, thread, agent, consumed, encLog, srcRaised, out>>
    /\ UNCHANGED <<httpVars, pipeVars, sfValue, sfResult, call>>

\* The calls the coordinator's analysts make.
ToolCalls ==
    InfoCalls("get_stock_price") \cup InfoCalls("get_financial_info")
    \cup HistoryCalls
    \cup FrameCalls("get_earnings_dates", EarningsTemplates, {EmptyDict})
    \cup FrameCalls("get_analyst_recommendations", RecommendationTemplates,
                    RecommendationInfos)

RetrievalInit ==
    /\ ServerInit
    /\ sfValue = NoValue
    /\ sfResult = Pending
    /\ call \in ToolCalls
    /\ ret = NoResult

\* One call of one tool.
RetrievalNext ==
    \/ get_stock_price_call
    \/ get_historical_data_call
    \/ get_financial_info_call
    \/ get_earnings_dates_call
    \/ get_analyst_recommendations_call

RetrievalSpec == RetrievalInit /\ [][RetrievalNext]_vars

\* Requests carrying any headers; their streams only complete.
HeaderNext ==
    \/ \E r \in Requests, h \in AnyHeaders : handle_request(r, h)
    \/ \E r \in Requests : health_request(r)
    \/ \E r \in Requests : SourceCompleted(r)

HeaderSpec == Init /\ [][HeaderNext]_vars

----------------------------------------------------------------------------
(* Vocabulary of the properties *)

Handled(r) == pc[r] # "new"

Ended(r) == pc[r] \notin {"new", "streaming"}

\* Request r is accepted in this step.
Arrives(r) == pc[r] = "new" /\ pc'[r] = "streaming"

\* Number of create_agent calls made for thread id t.
Constructions(t) == Cardinality({i \in 1..Len(created) : created[i] = t})

Callers(t) == {r \in Requests : Handled(r) /\ thread[r] = t}

Encodings(evs) == [i \in 1..Len(evs) |-> Encode(evs[i])]

Range(f) == {f[i] : i \in DOMAIN f}

IsSourceCall(c) == c.origin = "source"

\* The encoder calls made on source events, in order.
SourceCalls(r) == SelectSeq(encLog[r], IsSourceCall)

\* Positions (in the order of consumption) of the source events whose
\* encoding raised.
FailedAt(r) == {k \in 1..Len(SourceCalls(r)) : SourceCalls(r)[k].raised # ""}

FirstFailedAt(r) == CHOOSE k \in FailedAt(r) : \A j \in FailedAt(r) : k <= j

\* The calls made on events the bridge built itself.
BridgeCallFailed(r) ==
    \E i \in 1..Len(encLog[r]) : encLog[r][i].origin = "bridge" /\ encLog[r][i].raised # ""

BridgeCallSucceeded(r) ==
    \E i \in 1..Len(encLog[r]) : encLog[r][i].origin = "bridge" /\ encLog[r][i].raised = ""

IsLiteralChunk(c) == c.sse = "error"

\* An error chunk in the wide sense: it carries a run-error event, whoever
\* produced the event, or it is a literal fallback chunk.
IsErrorChunk(c) == IsLiteralChunk(c) \/ c.event.type = "run_error"

\* An error chunk the bridge made itself.
IsBridgeErrorChunk(c) ==
    \/ IsLiteralChunk(c)
    \/ c.event.type = "run_error" /\ c.event.code \in {"ENCODING_ERROR", "AGENT_ERROR"}

IsRelayedChunk(c) == ~IsBridgeErrorChunk(c)

----------------------------------------------------------------------------
(* Session registry *)

\* C1: a get_agent call for a thread id that is already registered constructs
\* nothing, leaves the registry as it is, and returns the instance every
\* earlier call for that id returned.
C1_SecondCallSameInstance ==
    [][\A r \in Requests :
          (Arrives(r) /\ thread'[r] \in DOMAIN sessions) =>
             /\ created' = created
             /\ sessions' = sessions
             /\ \A q \in Callers(thread'[r]) : agent'[r] = agent[q]]_vars

\* Two requests for one id, the second arriving after the first stream
\* completed, hold the one instance that was constructed.
C1_Witness ==
    /\ pc[1] = "complete" /\ Handled(2)
    /\ thread[1] = thread[2] /\ agent[1] = agent[2]
    /\ Len(created) = 1 /\ Cardinality(DOMAIN sessions) = 1

\* C2: however the requests for one thread id interleave, the id is
\* constructed exactly once, every caller holds that one instance, and the
\* registry holds one entry per construction.
C2_ExactlyOneConstruction ==
    /\ Cardinality(DOMAIN sessions) = Len(created)
    /\ \A t \in ThreadIds :
          Callers(t) # {} =>
             /\ Constructions(t) = 1
             /\ t \in DOMAIN sessions
             /\ \A r \in Callers(t) : agent[r] = sessions[t]

\* All requests of the model are in flight at once on one id, unseen before.
C2_Witness ==
    /\ \A r \in Requests : pc[r] = "streaming"
    /\ \A r \in Requests : thread[r] = thread[1] /\ agent[r] = agent[1]
    /\ Len(created) = 1

\* C9: no two runs are in flight against one session at the same time.
C9_OneRunPerSession ==
    \A r1, r2 \in Requests :
       (r1 # r2 /\ pc[r1] = "streaming" /\ pc[r2] = "streaming") =>
          thread[r1] # thread[r2]

\* C10: a request for a session that has been idle longer than the timeout
\* finds it evicted: a new session is constructed for the id.
C10_IdleSessionEvicted ==
    [][\A r \in Requests :
          (/\ Arrives(r)
           /\ thread'[r] \in DOMAIN sessions
           /\ idle[thread'[r]] > SESSION_TIMEOUT_SECONDS) =>
             /\ Len(created') = Len(created) + 1
             /\ agent'[r] # sessions[thread'[r]]]_vars

----------------------------------------------------------------------------
(* Event stream bridge *)

\* C3: when encoding the k-th source event raises and the ENCODING_ERROR event
\* is encoded, the stream is the k-1 encodings of the earlier events followed
\* by one chunk carrying a run-error event with code ENCODING_ERROR whose
\* message holds the text of the failure; the stream has ended and no event
\* after the k-th was pulled.
C3_EncodingFailureAtK ==
    \A r \in Requests :
       (FailedAt(r) # {} /\ ~BridgeCallFailed(r)) =>
          LET k == FirstFailedAt(r)
              err == SourceCalls(r)[k].raised
          IN /\ Len(consumed[r]) = k
             /\ Len(out[r]) = k
             /\ SubSeq(out[r], 1, k - 1) = Encodings(SubSeq(consumed[r], 1, k - 1))
             /\ out[r][k].sse = "data"
             /\ out[r][k].event.type = "run_error"
             /\ out[r][k].event.code = "ENCODING_ERROR"
             /\ err \in Range(out[r][k].event.message)
             /\ Ended(r)

\* The encoder raised on the third event of a stream.
C3_Witness ==
    \E r \in Requests :
       /\ FailedAt(r) = {3} /\ ~BridgeCallFailed(r)
       /\ Len(out[r]) = 3 /\ out[r][3].event.code = "ENCODING_ERROR"

\* C4 as stated: a stream holds at most one error chunk (a chunk carrying a
\* run-error event, or a literal fallback chunk) and no chunk after it.
C4_NothingAfterAnyErrorChunk ==
    \A r \in Requests : \A i \in 1..Len(out[r]) :
       IsErrorChunk(out[r][i]) => i = Len(out[r])

\* C4 amended: a stream holds at most one error chunk made by the bridge (an
\* encoded ENCODING_ERROR or AGENT_ERROR event, or a literal fallback chunk);
\* it is the last chunk, and the stream has ended.
C4_NothingAfterBridgeErrorChunk ==
    \A r \in Requests : \A i \in 1..Len(out[r]) :
       IsBridgeErrorChunk(out[r][i]) =>
          /\ i = Len(out[r])
          /\ pc[r] \in {"encoding_error", "agent_error"}

\* A stream that relayed a run-error event of its source and then ended with
\* an error chunk of the bridge.
C4_Witness ==
    \E r \in Requests :
       /\ Len(out[r]) >= 2
       /\ out[r][1].event.type = "run_error" /\ IsRelayedChunk(out[r][1])
       /\ IsBridgeErrorChunk(out[r][Len(out[r])])

\* C5: a stream that ended after an encoding failure or a failure of its
\* source ends with an error chunk.
C5_FailureIsReported ==
    \A r \in Requests :
       (Ended(r) /\ (FailedAt(r) # {} \/ srcRaised[r] # "")) =>
          /\ out[r] # <<>>
          /\ IsErrorChunk(out[r][Len(out[r])])

\* A stream whose source raised and whose error event could not be encoded.
C5_Witness ==
    \E r \in Requests :
       /\ srcRaised[r] # "" /\ BridgeCallFailed(r) /\ Ended(r)
       /\ IsLiteralChunk(out[r][Len(out[r])])

\* C6: when the source raises after j events that were all encoded, and the
\* AGENT_ERROR event is encoded, the stream is the j encodings followed by one
\* chunk carrying a run-error event with code AGENT_ERROR whose message holds
\* the text of the failure, and the stream has ended.
C6_SourceFailure ==
    \A r \in Requests :
       (srcRaised[r] # "" /\ ~BridgeCallFailed(r)) =>
          LET j == Len(consumed[r])
          IN /\ FailedAt(r) = {}
             /\ Len(out[r]) = j + 1
             /\ SubSeq(out[r], 1, j) = Encodings(consumed[r])
             /\ out[r][j + 1].sse = "data"
             /\ out[r][j + 1].event.type = "run_error"
             /\ out[r][j + 1].event.code = "AGENT_ERROR"
             /\ srcRaised[r] \in Range(out[r][j + 1].event.message)
             /\ Ended(r)

\* The source raised after two events.
C6_Witness ==
    \E r \in Requests :
       /\ srcRaised[r] = "e2" /\ Len(consumed[r]) = 2
       /\ out[r][3].event.code = "AGENT_ERROR"

\* C7: when encoding a source event raises and encoding the ENCODING_ERROR
\* event raises too, the stream is the encodings of the earlier events
\* followed by the one literal chunk; the stream has ended and no further
\* event was pulled.
C7_LiteralFallback ==
    \A r \in Requests :
       (FailedAt(r) # {} /\ BridgeCallFailed(r)) =>
          LET k == FirstFailedAt(r)
          IN /\ Len(consumed[r]) = k
             /\ out[r] = Encodings(SubSeq(consumed[r], 1, k - 1))
                            \o <<[sse |-> "error", event |-> NoEvent,
                                  error |-> "Event encoding failed"]>>
             /\ Ended(r)

\* Both encodings failed on the second event of a stream.
C7_Witness ==
    \E r \in Requests :
       /\ FailedAt(r) = {2} /\ BridgeCallFailed(r)
       /\ Len(out[r]) = 2 /\ IsLiteralChunk(out[r][2])

\* C8: the chunks of a stream other than the bridge's own error chunk are the
\* encodings of the source events that were encoded, one per event, in the
\* order the source produced them; every event pulled went to the encoder
\* once, in that order.
C8_RelayedInOrder ==
    \A r \in Requests :
       LET calls == SourceCalls(r)
           okAt == {k \in 1..Len(calls) : calls[k].raised = ""}
       IN /\ [k \in 1..Len(calls) |-> calls[k].event] = consumed[r]
          /\ \A k \in okAt : \A j \in 1..k : j \in okAt
          /\ SelectSeq(out[r], IsRelayedChunk)
                = Encodings(SubSeq(consumed[r], 1, Cardinality(okAt)))

\* A stream that relayed three events of different kinds.
C8_Witness ==
    \E r \in Requests :
       /\ Len(consumed[r]) = 3
       /\ consumed[r][1] # consumed[r][2] /\ consumed[r][2] # consumed[r][3]
       /\ Len(SelectSeq(out[r], IsRelayedChunk)) = 3

----------------------------------------------------------------------------
(* Disconnection, sessions after a failure, /health, headers *)

\* Request r was a POST / that handle_request accepted.
Posted(r) == pc[r] \notin {"new", "responded"}

StreamFailed(r) == pc[r] \in {"encoding_error", "agent_error"}

\* C11: from the step in which the client of a stream disconnects, the stream
\* pulls no source event, calls the encoder no more and emits no chunk, an
\* error chunk included.
C11_NothingAfterDisconnect ==
    [][\A r \in Requests :
          pc'[r] = "disconnected" =>
             /\ consumed'[r] = consumed[r]
             /\ encLog'[r] = encLog[r]
             /\ out'[r] = out[r]
             /\ pc[r] \in {"streaming", "disconnected"}]_vars

\* The client left after two chunks, the source having more to give.
C11_Witness ==
    /\ pc[1] = "disconnected"
    /\ Len(out[1]) = 2 /\ Len(consumed[1]) = 2
    /\ EventsPulled < MaxEvents

\* C16: after a stream of a session ended with an encoding failure or a
\* failure of its source, the session is still registered, bound to the
\* instance that stream used; every later request with the id gets that
\* instance, and its stream starts afresh.
C16_SessionSurvivesFailure ==
    /\ \A r \in Requests :
          StreamFailed(r) =>
             /\ thread[r] \in DOMAIN sessions
             /\ sessions[thread[r]] = agent[r]
             /\ \A q \in Requests :
                   (q > r /\ Posted(q) /\ thread[q] = thread[r]) => agent[q] = agent[r]
    /\ \A q \in Requests :
          pc[q] = "streaming" => Len(out[q]) = Len(consumed[q])

\* A request on a session whose earlier stream failed relayed an event and
\* completed.
C16_Witness ==
    \E r, q \in Requests :
       /\ q > r /\ StreamFailed(r) /\ thread[q] = thread[r] /\ agent[q] = agent[r]
       /\ pc[q] = "complete" /\ out[q] = <<Encode(ContentDelta)>>

\* C17: distinct thread ids are bound to distinct instances, and a step of a
\* request for one id (its arrival, which may create the session, or a step
\* of its stream, a failure included) leaves the entry and the state of
\* every other id as they were.
C17_SessionsIsolated ==
    /\ [](\A a, b \in DOMAIN sessions : a # b => sessions[a].inst # sessions[b].inst)
    /\ [][\A r \in Requests : \A b \in DOMAIN sessions :
             (pc'[r] # pc[r] /\ thread'[r] # b) =>
                /\ b \in DOMAIN sessions'
                /\ sessions'[b] = sessions[b]
                /\ store'[b] = store[b]]_vars

\* Two sessions are registered and a stream of one of them failed.
C17_Witness ==
    \E r \in Requests : \E b \in DOMAIN sessions :
       StreamFailed(r) /\ b # thread[r] /\ thread[r] \in DOMAIN sessions

\* C18: GET /health answers status "healthy" and active_sessions equal to the
\* number of registered sessions, a number >= 0; the step registers no
\* session, starts no stream and touches no stream.
C18_HealthReportsRegistry ==
    [][\A r \in Requests :
          (pc[r] = "new" /\ pc'[r] = "responded") =>
             /\ health'[r].status = "healthy"
             /\ health'[r].active_sessions = Cardinality(DOMAIN sessions)
             /\ health'[r].active_sessions >= 0
             /\ sessions' = sessions /\ created' = created
             /\ \A q \in Requests \ {r} : pc'[q] = pc[q]
             /\ consumed' = consumed /\ out' = out /\ encLog' = encLog]_vars

\* /health answered right after a stream failed, one session being registered.
C18_Witness ==
    \E r, q \in Requests :
       /\ q > r /\ StreamFailed(r) /\ pc[q] = "responded"
       /\ health[q].active_sessions = 1

\* C19 as stated: the x-session-id header selects the session; without it the
\* session is "default_thread".
C19_SelectedBySessionIdHeader ==
    \A r1, r2 \in Requests :
       (Posted(r1) /\ Posted(r2)) =>
          LET s1 == HeaderGet(reqHeaders[r1], "x-session-id", DefaultThread)
              s2 == HeaderGet(reqHeaders[r2], "x-session-id", DefaultThread)
          IN /\ thread[r1] = s1
             /\ s1 = s2 => agent[r1] = agent[r2]
             /\ s1 # s2 => agent[r1] # agent[r2]

\* C19 amended: the x-thread-id header selects the session; without it the
\* session is "default_thread"; the x-session-id header has no effect.
C19_SelectedByThreadIdHeader ==
    \A r1, r2 \in Requests :
       (Posted(r1) /\ Posted(r2)) =>
          LET t1 == HeaderGet(reqHeaders[r1], "x-thread-id", DefaultThread)
              t2 == HeaderGet(reqHeaders[r2], "x-thread-id", DefaultThread)
          IN /\ thread[r1] = t1
             /\ sessions[t1] = agent[r1]
             /\ t1 = t2 => agent[r1] = agent[r2]
             /\ t1 # t2 => agent[r1] # agent[r2]

\* Two requests with different x-session-id values and no x-thread-id share
\* the session "default_thread".
C19_Witness ==
    \E r1, r2 \in Requests :
       /\ Posted(r1) /\ Posted(r2)
       /\ DOMAIN reqHeaders[r1] = {"x-session-id"}
       /\ DOMAIN reqHeaders[r2] = {"x-session-id"}
       /\ reqHeaders[r1]["x-session-id"] # reqHeaders[r2]["x-session-id"]
       /\ thread[r1] = DefaultThread /\ agent[r1] = agent[r2]

----------------------------------------------------------------------------
(* The analysts' prerequisites *)

StageLogEntries(r) == {stageLog[r][i] : i \in 1..Len(stageLog[r])}

\* C12: a stage run on a state that lacks its required key does not invoke
\* the reasoning engine, produces a run-error event naming the missing key,
\* and writes nothing.
C12_HaltIsDeterministic ==
    \A r \in Requests : \A e \in StageLogEntries(r) :
       required_keys(e.stage) \ e.before # {} =>
          /\ e.halted /\ ~e.engine
          /\ e.event = "run_error" /\ e.missing \in required_keys(e.stage)
          /\ e.wrote = ""

\* C13: in one run the stages start in the order 1, 2, 3, 4, and a stage
\* starts only when its required key is in the state.
C13_StagesInOrder ==
    \A r \in Requests : \A i \in 1..Len(stageLog[r]) :
       /\ required_keys(stageLog[r][i].stage) \subseteq stageLog[r][i].before
       /\ \A j \in 1..(i - 1) : stageLog[r][j].stage < stageLog[r][i].stage

\* C14: a key of a session's state keeps the value first written to it, and
\* a stage writes no key but its own.
C14_KeysWrittenOnce ==
    [][/\ \A t \in DOMAIN store : \A k \in DOMAIN store[t] :
             /\ t \in DOMAIN store' /\ k \in DOMAIN store'[t]
             /\ store'[t][k] = store[t][k]
       /\ \A r \in Requests : \A e \in StageLogEntries(r)' :
             e.wrote \in {"", produces_key(e.stage)}]_vars

----------------------------------------------------------------------------
(* safe_float *)

\* The inputs for which the result is to be None: None, what float() cannot
\* convert, NaN and the infinities.
IsAbsentInput(v) ==
    \/ v = NoValue
    \/ float(v).state = "raised"
    \/ float(v).value.kind \in {"nan", "inf"}

\* C20: safe_float never raises, never returns NaN or an infinity, returns
\* None exactly for None, unconvertible values, NaN and the infinities, and
\* for every other input returns its value as a finite float.
C20_SafeFloatTotal ==
    sfResult # Pending =>
       /\ sfResult.state = "returned"
       /\ sfResult.value.kind \in {"none", "float"}
       /\ sfResult.value = NoValue <=> IsAbsentInput(sfValue)
       /\ ~IsAbsentInput(sfValue) =>
             /\ sfResult.value.num = float(sfValue).value.num
             /\ sfResult.value.exp = float(sfValue).value.exp

----------------------------------------------------------------------------
(* Termination, the two literal chunks, growth of the registry *)

BridgeErrorChunks(r) == {i \in 1..Len(out[r]) : IsBridgeErrorChunk(out[r][i])}

RelayedChunks(r) == {i \in 1..Len(out[r]) : IsRelayedChunk(out[r][i])}

\* C27: a stream holds at most one chunk per source event consumed plus at
\* most one error chunk of the bridge, and a stream whose source yields
\* finitely many events and then completes or raises comes to an end.
C27_StreamIsFinite ==
    /\ [](\A r \in Requests :
             /\ Cardinality(RelayedChunks(r)) <= Len(consumed[r])
             /\ Cardinality(BridgeErrorChunks(r)) <= 1
             /\ Len(out[r]) <= Len(consumed[r]) + 1)
    /\ \A r \in {1} : (pc[r] = "streaming") ~> Ended(r)

\* The source yielded every event it had and then raised; the stream ended
\* with one chunk per event and the error chunk.
C27_Witness ==
    /\ pc[1] = "agent_error"
    /\ Len(consumed[1]) = MaxEvents
    /\ Len(out[1]) = MaxEvents + 1

\* The last chunk of a stream that ended after both encodings failed.
LiteralOf(r) == out[r][Len(out[r])]

EndedWithLiteral(r) ==
    /\ StreamFailed(r) /\ BridgeCallFailed(r)
    /\ Len(out[r]) > 0 /\ IsLiteralChunk(LiteralOf(r))

\* C28 as stated: the literal chunk emitted when the AGENT_ERROR event cannot
\* be encoded is the literal chunk of the ENCODING_ERROR path.
C28_OneLiteralForBothPaths ==
    \A r \in Requests :
       (pc[r] = "agent_error" /\ EndedWithLiteral(r)) => LiteralOf(r) = BasicEncodingError

\* C28 amended: each path has its own fixed literal chunk, "Agent execution
\* failed" when the source raised and "Event encoding failed" when an
\* encoding raised, whatever the events and the exceptions were.
C28_OneLiteralPerPath ==
    /\ \A r \in Requests :
          EndedWithLiteral(r) =>
             /\ pc[r] = "agent_error" =>
                   LiteralOf(r) = [sse |-> "error", event |-> NoEvent,
                                   error |-> "Agent execution failed"]
             /\ pc[r] = "encoding_error" =>
                   LiteralOf(r) = [sse |-> "error", event |-> NoEvent,
                                   error |-> "Event encoding failed"]
    /\ BasicAgentError # BasicEncodingError

\* The source raised after one event and the AGENT_ERROR event could not be
\* encoded.
C28_Witness ==
    /\ pc[1] = "agent_error" /\ EndedWithLiteral(1)
    /\ Len(out[1]) = 2 /\ srcRaised[1] # ""

\* C29: a thread id, once bound, stays bound to the same instance; the number
\* of sessions never decreases and is the number of distinct thread ids
\* requested so far; a request's entry is there from the step the request is
\* received, before any chunk, and whatever becomes of its stream.
C29_RegistryOnlyGrows ==
    /\ [][\A t \in DOMAIN sessions :
             t \in DOMAIN sessions' /\ sessions'[t] = sessions[t]]_vars
    /\ [][\A r \in Requests :
             Arrives(r) => /\ thread'[r] \in DOMAIN sessions'
                           /\ sessions'[thread'[r]] = agent'[r]
                           /\ out'[r] = <<>>]_vars
    /\ [](/\ Cardinality(DOMAIN sessions) = Cardinality({thread[r] : r \in {q \in Requests : Posted(q)}})
          /\ \A r \in Requests : Posted(r) => sessions[thread[r]] = agent[r])

\* Two thread ids are bound; the stream of one failed, the client of the
\* other left, and the idle time of a session has passed the timeout.
C29_Witness ==
    /\ Cardinality(DOMAIN sessions) = 2
    /\ \E r, q \in Requests : pc[r] = "disconnected" /\ StreamFailed(q)
    /\ \E t \in DOMAIN idle : idle[t] > SESSION_TIMEOUT_SECONDS

----------------------------------------------------------------------------
(* The records of the market-data tools *)

Called(ops) == ret.state # "pending" /\ call.op \in ops

IsErrorRecord(r) == r.state = "returned" /\ "error" \in DOMAIN r.fields

\* The fields of a returned record besides its ticker.
DataFields(r) == DOMAIN r.fields \ {"ticker"}

\* The fields of a returned record that hold a value stock.info gave.
ProviderFields(r, fields) ==
    {n \in DataFields(r) :
        \E f \in fields : f.name = n /\ {f.key, f.alt} \cap DOMAIN call.info # {}}

\* C21: a record that get_stock_price or get_financial_info returns as
\* successful has a field besides its ticker, holding provider data;
\* otherwise the record is an error record with the "no data" message.
C21_NoDataIsAnError ==
    /\ Called({"get_stock_price"}) /\ ret.state = "returned" =>
          \/ IsErrorRecord(ret)
          \/ ProviderFields(ret, StockPriceFields) # {}
    /\ Called({"get_financial_info"}) /\ ret.state = "returned" =>
          \/ IsErrorRecord(ret)
          \/ ProviderFields(ret, FinancialInfoFields) # {}

AllTools == {"get_stock_price", "get_historical_data", "get_financial_info",
             "get_earnings_dates", "get_analyst_recommendations"}

\* A populated record: no error field, and a field besides the ticker and a
\* message.
IsPopulatedRecord(r) ==
    /\ r.state = "returned"
    /\ "error" \notin DOMAIN r.fields
    /\ DOMAIN r.fields \ {"ticker", "message"} # {}

\* C22: a tool returns a populated record without an error field, or the
\* error record {ticker, error}; nothing else.
C22_TwoShapes ==
    (Called(AllTools) /\ ret.state = "returned") =>
       /\ "ticker" \in DOMAIN ret.fields
       /\ \/ IsPopulatedRecord(ret)
          \/ DOMAIN ret.fields = {"ticker", "error"}

\* C23: a tool never raises; whatever the ticker is and whatever the provider
\* does, it returns, and a provider failure gives the record {ticker, error}.
C23_NeverRaises ==
    Called(AllTools) =>
       /\ ret.state = "returned"
       /\ call.fails => DOMAIN ret.fields = {"ticker", "error"}

IsFinite(v) == v.kind \in {"int", "float"}

OHLCV == {"open", "high", "low", "close", "volume"}

HistorySucceeded == Called({"get_historical_data"}) /\ IsPopulatedRecord(ret)

\* C24: a successful historical result has a non-empty data list whose
\* points all carry the five OHLCV fields with finite values.
C24_PointsAreFinite ==
    HistorySucceeded =>
       /\ ret.data # <<>>
       /\ \A i \in DOMAIN ret.data :
             \A k \in OHLCV : k \in DOMAIN ret.data[i] /\ IsFinite(ret.data[i][k])

\* A raw row whose five columns are all finite numbers.
FullyFinite(row) ==
    \A col \in {"Open", "High", "Low", "Close", "Volume"} :
       col \in DOMAIN row /\ IsFinite(row[col])

FiniteRows == SelectSeq(call.rows, FullyFinite)

\* C25: when a raw row is fully finite, the historical call succeeds and its
\* data are the fully finite rows, in their order; the other rows are
\* dropped.
C25_InvalidRowsDropped ==
    (Called({"get_historical_data"}) /\ call.ticker.kind = "str" /\ ~call.fails
        /\ FiniteRows # <<>>) =>
       /\ IsPopulatedRecord(ret)
       /\ ret.data = [i \in DOMAIN FiniteRows |-> HistoryPoint(FiniteRows[i])]

IsAbsentValue(v) == v.kind \in {"none", "nan", "inf"}

\* C26: no field of a returned record, at top level or in a data point,
\* holds None, NaN or an infinity.
C26_NoAbsentValueEmitted ==
    (Called(AllTools) /\ ret.state = "returned") =>
       /\ \A k \in DOMAIN ret.fields : ~IsAbsentValue(ret.fields[k])
       /\ \A i \in DOMAIN ret.data :
             \A k \in DOMAIN ret.data[i] : ~IsAbsentValue(ret.data[i][k])

IsGiven(d) == d.kind = "str" /\ d.text # ""

BothDatesGiven == IsGiven(call.start_date) /\ IsGiven(call.end_date)

PeriodArgument == IF call.period = Omitted THEN "1mo" ELSE call.period.text

\* C30: the historical call queries the date range exactly when both dates
\* are non-empty and otherwise queries the period, "1mo" when none is passed;
\* a successful result names what was queried in its period field, and its
\* dataPoints is the length of its data.
C30_RangeOnlyWithBothDates ==
    (Called({"get_historical_data"}) /\ ret.state = "returned") =>
       /\ BothDatesGiven =>
             ret.query = "start=" \o call.start_date.text \o ",end=" \o call.end_date.text
       /\ ~BothDatesGiven => ret.query = "period=" \o PeriodArgument
       /\ IsPopulatedRecord(ret) =>
             /\ ret.fields["period"] =
                   PyStr(IF BothDatesGiven
                         THEN call.start_date.text \o " to " \o call.end_date.text
                         ELSE PeriodArgument)
             /\ ret.fields["dataPoints"] = PyInt(Len(ret.data), 0)
             /\ ret.fields["data"] = PyList

\* A call with a start date and no end date and no period queried "1mo" and
\* returned two points.
C30_Witness ==
    /\ HistorySucceeded
    /\ IsGiven(call.start_date) /\ call.end_date = NoValue /\ call.period = Omitted
    /\ ret.query = "period=1mo" /\ ret.fields["period"] = PyStr("1mo")
    /\ ret.fields["dataPoints"] = PyInt(2, 0) /\ Len(ret.data) = 2

====
